---- MODULE Spec2Model ----
(***************************************************************************)
(* Model of entity/image_processor.py: the ProcessorComponent tree, the    *)
(* ProcessorChain composite and the layout arithmetic of the stages.       *)
(* Images are modelled by their sizes (width, height); Python exceptions   *)
(* by the name of the exception that reaches the caller.                   *)
(***************************************************************************)
EXTENDS Integers, Sequences, FiniteSets, TLC

VARIABLES
    components,   \* ProcessorChain.components (list of added components)
    container,    \* the ImageContainer handed to process
    config,       \* the Config the stages were constructed with
    op,           \* the caller's most recent call
    pc,           \* "idle" | "running" | "returned" | "raised"
    idx,          \* position of the for loop of ProcessorChain.process
    log,          \* instrumentation: the process calls made on children
    raised,       \* the exception that reached the caller ("none" if none)
    local         \* local variables of the stage that ran last

vars == <<components, container, config, op, pc, idx, log, raised, local>>

----------------------------------------------------------------------------
(* Bounds of the model *)

MaxChain == 3
MaxSide == 2
MaxStages == 2
MaxBlurSide == 2
MaxText == 2
MaxShadowSide == 4

(* int(x) of a rational n/d with d > 0: truncation toward zero *)
TruncDiv(n, d) == IF n >= 0 THEN n \div d ELSE -((-n) \div d)

Min(a, b) == IF a <= b THEN a ELSE b
Max(a, b) == IF a >= b THEN a ELSE b

----------------------------------------------------------------------------
(* Images and the container *)

Img(w, h) == [width |-> w, height |-> h]

(* PIL's Image.new refuses a negative width or height (ValueError) *)
BadSize(img) == img.width < 0 \/ img.height < 0

PhotoSizes ==
    { Img(w, h) : w \in 1..MaxSide, h \in 1..MaxSide }
        \cup { Img(3000, 4000), Img(4000, 3000) }

(* what the external collaborators return for the photo: the heights of the
   four rasterized quadrant texts, whether a logo exists for the camera make,
   and the rasterized model name and parameter string *)
NoExif ==
    [lt |-> 0, lb |-> 0, rt |-> 0, rb |-> 0, logo |-> FALSE,
     model_image |-> Img(0, 0), param_image |-> Img(0, 0)]

(* ImageContainer: img is the original photo, watermark_img the working image *)
NewContainer(id, photo, exif) ==
    [id |-> id, img |-> photo, watermark_img |-> photo, exif |-> exif]

get_width(c) == c.watermark_img.width
get_height(c) == c.watermark_img.height
update_watermark_img(c, image) == [c EXCEPT !.watermark_img = image]

ContainerIds == {1, 2}

MarginWidths == {5, 50}
Colors == {"#ffffff", "#212121"}

(* utils.padding_image: adds padding_size on every side named in location *)
padding_image(image, padding_size, location) ==
    Img(image.width
          + (IF "l" \in location THEN padding_size ELSE 0)
          + (IF "r" \in location THEN padding_size ELSE 0),
        image.height
          + (IF "t" \in location THEN padding_size ELSE 0)
          + (IF "b" \in location THEN padding_size ELSE 0))

----------------------------------------------------------------------------
(* Stage results: the exception raised (or "none"), the container and the  *)
(* Config as the stage leaves them.                                        *)

Outcome(exc, c, cfg, loc) ==
    [exc |-> exc, container |-> c, config |-> cfg, local |-> loc]

(* container.update_watermark_img(image) at the end of a stage; the image was
   built by Image.new, which raises ValueError on a negative size *)
Store(c, cfg, image, loc) ==
    IF BadSize(image) THEN Outcome("ValueError", c, cfg, loc)
    ELSE Outcome("none", update_watermark_img(c, image), cfg, loc)

(* ProcessorComponent.__init__ and the constructors of the subclasses: the
   fields of the stage object *)
Stage(kind, cfg) ==
    [kind |-> kind,
     logo_position |->
        IF kind \in {"watermark_right_logo", "dark_watermark_right_logo"} THEN "right"
        ELSE IF kind = "custom_watermark"
             THEN (IF cfg.logo_left THEN "True" ELSE "False")
             ELSE "left",
     logo_enable |-> IF kind = "custom_watermark" THEN cfg.logo_enabled ELSE TRUE,
     bg_color |->
        IF kind \in {"dark_watermark_right_logo", "dark_watermark_left_logo"} THEN "#212121"
        ELSE IF kind = "custom_watermark" THEN cfg.bg_color
             ELSE "#ffffff"]

(* ProcessorComponent.process *)
BaseProcess(c, cfg) == Outcome("NotImplementedError", c, cfg, [stage |-> "base"])

(* EmptyProcessor.process *)
EmptyProcess(c, cfg) == Outcome("none", c, cfg, [stage |-> "empty"])

(* border thickness of Margin and PureWhiteMargin *)
MarginPaddingSize(c, cfg) ==
    TruncDiv(cfg.white_margin_width * Min(get_width(c), get_height(c)), 100)

(* mutant: Margin pads the bottom edge too *)
MarginSidesWithBottom == {"t", "l", "r", "b"}

MarginSides == {"t", "l", "r"}

(* MarginProcessor.process *)
MarginProcess(c, cfg) ==
    Store(c, cfg, padding_image(c.watermark_img, MarginPaddingSize(c, cfg), MarginSides),
          [stage |-> "margin", color |-> cfg.bg_color])

PureWhiteMarginSides == {"t", "l", "r", "b"}

(* PureWhiteMarginProcessor.process *)
PureWhiteMarginProcess(c, cfg) ==
    Store(c, cfg, padding_image(c.watermark_img, MarginPaddingSize(c, cfg), PureWhiteMarginSides),
          [stage |-> "pure_white_margin", color |-> cfg.bg_color])

(* PIL.ImageOps.expand(image, (x, y)): a border of two values puts x on the
   left and on the right and y on the top and on the bottom *)
ImageOps_expand(image, x, y) == Img(image.width + 2 * x, image.height + 2 * y)

(* ImageContainer.get_original_ratio() > ImageContainer.get_ratio(), the
   ratios being img.width / img.height and width / height *)
OriginalRatioGreater(c) ==
    c.img.width * get_height(c) > get_width(c) * c.img.height

(* PaddingToOriginalRatioProcessor.process: padding_size of the branch taken;
   int(width / original_ratio - height), int(height * original_ratio - width) *)
PaddingSize(c) ==
    IF OriginalRatioGreater(c)
    THEN TruncDiv(get_width(c) * c.img.height - get_height(c) * c.img.width, c.img.width)
    ELSE TruncDiv(get_height(c) * c.img.width - get_width(c) * c.img.height, c.img.height)

(* PaddingToOriginalRatioProcessor.process *)
PaddingToOriginalRatioProcess(c, cfg) ==
    LET loc == [stage |-> "padding_to_original_ratio",
                before |-> c.watermark_img,
                height_branch |-> OriginalRatioGreater(c),
                padding_size |-> PaddingSize(c)]
    IN IF get_height(c) = 0
       THEN Outcome("ZeroDivisionError", c, cfg, [stage |-> "padding_to_original_ratio"])
       ELSE IF OriginalRatioGreater(c)
            THEN Store(c, cfg, ImageOps_expand(c.watermark_img, 0, PaddingSize(c)), loc)
            ELSE Store(c, cfg, ImageOps_expand(c.watermark_img, PaddingSize(c), 0), loc)

----------------------------------------------------------------------------
(* The Watermark family *)

NORMAL_HEIGHT == 1000
EMPTY_PADDING_HEIGHT == 100

WatermarkKinds ==
    {"watermark", "watermark_right_logo", "watermark_left_logo",
     "dark_watermark_right_logo", "dark_watermark_left_logo", "custom_watermark"}

(* WatermarkProcessor.is_logo_left *)
is_logo_left(stage) == stage.logo_position = "left"

(* Image.resize to a size with a zero side: ValueError in some Pillow
   releases, an empty image in others *)
ResizeExcs(size) ==
    IF size.width = 0 \/ size.height = 0 THEN {"none", "ValueError"} ELSE {"none"}

(* utils.concatenate_image of a column: top text, empty_padding, bottom text *)
ColumnHeight(top, bottom) == top + EMPTY_PADDING_HEIGHT + bottom

(* ratio and padding_ratio of WatermarkProcessor.process, in hundredths *)
BandRatioPct(c, cfg) ==
    (IF get_width(c) >= get_height(c) THEN 4 ELSE 9) + 2 * cfg.font_padding_level

PaddingRatioPct(c, cfg) ==
    (IF get_width(c) >= get_height(c) THEN 52 ELSE 70) - 4 * cfg.font_padding_level

(* the column normalization of WatermarkProcessor.process: the heights of
   left and right after the three padding_image calls, and the size of the
   third padding *)
NormalizeColumns(left_height, right_height, padding_pct) ==
    LET max_height == Max(left_height, right_height)
        padding == TruncDiv(max_height * padding_pct, 100)
        left == padding_image(Img(0, left_height), padding, {"t", "b"})
        right_t == padding_image(Img(0, right_height), padding, {"t"})
        bottom == left.height - right_t.height
        right == padding_image(right_t, bottom, {"b"})
    IN [left_height |-> left.height, right_height |-> right.height,
        padding |-> padding, bottom_padding |-> bottom]

(* the logo branch of WatermarkProcessor.process: logo.height is read from
   the loader's result, which is None when the make has no logo *)
LogoBranchExc(stage, has_logo) ==
    IF stage.logo_enable /\ is_logo_left(stage) /\ ~has_logo
    THEN "AttributeError"
    ELSE "none"

(* utils.resize_image_with_width(watermark, width): the band's height *)
BandHeight(c, cfg) ==
    TruncDiv(NORMAL_HEIGHT * get_width(c),
             TruncDiv(100 * NORMAL_HEIGHT, BandRatioPct(c, cfg)))

(* WatermarkProcessor.process *)
WatermarkProcess(stage, c, cfg) ==
    LET cfg1 == [cfg EXCEPT !.bg_color = stage.bg_color]
        cols == NormalizeColumns(ColumnHeight(c.exif.lt, c.exif.lb),
                                 ColumnHeight(c.exif.rt, c.exif.rb),
                                 PaddingRatioPct(c, cfg1))
        loc == [stage |-> stage.kind, before |-> c.watermark_img,
                left_height |-> cols.left_height, right_height |-> cols.right_height,
                padding |-> cols.padding, bottom_padding |-> cols.bottom_padding]
        band == Img(get_width(c), BandHeight(c, cfg1))
        exc == LogoBranchExc(stage, c.exif.logo)
    IN IF get_height(c) = 0
       THEN {Outcome("ZeroDivisionError", c, cfg1, [stage |-> stage.kind])}
       ELSE IF cols.left_height < 0 \/ cols.right_height < 0
            THEN {Outcome("ValueError", c, cfg1, [stage |-> stage.kind])}
            ELSE IF exc # "none"
                 THEN {Outcome(exc, c, cfg1, loc)}
                 ELSE { IF e = "none"
                        THEN Store(c, cfg1, Img(get_width(c), get_height(c) + band.height), loc)
                        ELSE Outcome(e, c, cfg1, loc) : e \in ResizeExcs(band) }

----------------------------------------------------------------------------
(* BackgroundBlurWithParams *)

(* PADDING_PERCENT_IN_BACKGROUND = 0.18, in hundredths *)
PADDING_PERCENT_IN_BACKGROUND == 18

(* the gap of 10 pixels between the two caption lines *)
TEXT_GAP == 10

(* a scale factor is kept as the fraction num / den *)
Fraction(n, d) == [num |-> n, den |-> d]

(* mutant: the width scale is computed without the zero-width guard *)
WidthScaleUnguarded(max_text_width, max_text_image_width) ==
    Fraction(max_text_width, max_text_image_width)

(* width_scale = max_text_width / max_text_image_width
                 if max_text_image_width > 0 else 1.0 *)
WidthScale(max_text_width, max_text_image_width) ==
    IF max_text_image_width > 0
    THEN Fraction(max_text_width, max_text_image_width)
    ELSE Fraction(1, 1)

(* mutant: the larger of the two scales is taken *)
LargerScale(height_scale, width_scale) ==
    IF height_scale.num * width_scale.den >= width_scale.num * height_scale.den
    THEN height_scale ELSE width_scale

(* scale_factor = min(height_scale, width_scale), both denominators > 0 *)
ScaleFactor(height_scale, width_scale) ==
    IF height_scale.num * width_scale.den <= width_scale.num * height_scale.den
    THEN height_scale ELSE width_scale

(* the size handed to resize: (int(width * scale), int(height * scale)) *)
ScaledSize(image, scale) ==
    Img(TruncDiv(image.width * scale.num, scale.den),
        TruncDiv(image.height * scale.num, scale.den))

(* model_image / param_image after the scaling block: an image of height 0
   is not resized *)
ScaleText(image, scale) ==
    IF image.height > 0 THEN ScaledSize(image, scale) ELSE image

TextResizeExcs(image, scale) ==
    IF image.height > 0 THEN ResizeExcs(ScaledSize(image, scale)) ELSE {"none"}

(* BackgroundBlurWithParamsProcessor.process *)
BackgroundBlurWithParamsProcess(c, cfg) ==
    LET width == get_width(c)
        height == get_height(c)
        params_area_height == TruncDiv(8 * height, 100)
        final_width == TruncDiv((100 + PADDING_PERCENT_IN_BACKGROUND) * width, 100)
        final_height ==
            TruncDiv((100 + PADDING_PERCENT_IN_BACKGROUND) * height, 100) + params_area_height
        total_padding_height == TruncDiv(PADDING_PERCENT_IN_BACKGROUND * height, 100)
        top_padding == total_padding_height \div 10
        model0 == c.exif.model_image
        param0 == c.exif.param_image
        max_text_width == TruncDiv(75 * width, 100)
        total_text_height == model0.height + param0.height + TEXT_GAP
        height_scale == Fraction(params_area_height, total_text_height)
        width_scale == WidthScale(max_text_width, Max(model0.width, param0.width))
        scaling == total_text_height > 0
        scale_factor == ScaleFactor(height_scale, width_scale)
        model_image == IF scaling THEN ScaleText(model0, scale_factor) ELSE model0
        param_image == IF scaling THEN ScaleText(param0, scale_factor) ELSE param0
        text_height == model_image.height + param_image.height + TEXT_GAP
        start_y == final_height - params_area_height
                     + ((params_area_height - text_height) \div 2) - top_padding
        none == [stage |-> "background_blur_with_params"]
        loc == [stage |-> "background_blur_with_params",
                before |-> c.watermark_img,
                params_area_height |-> params_area_height,
                max_text_width |-> max_text_width,
                final_width |-> final_width, final_height |-> final_height,
                model_text |-> model0, param_text |-> param0,
                model_image |-> model_image, param_image |-> param_image,
                model_y |-> start_y,
                param_y |-> start_y - model_image.height + TEXT_GAP]
    IN IF scaling /\ width_scale.den = 0
       THEN {Outcome("ZeroDivisionError", c, cfg, none)}
       ELSE { IF e0 # "none" \/ e1 # "none" \/ e2 # "none"
              THEN Outcome("ValueError", c, cfg, none)
              ELSE Store(c, cfg, Img(final_width, final_height), loc) :
                e0 \in ResizeExcs(Img(final_width, final_height)),
                e1 \in IF scaling THEN TextResizeExcs(model0, scale_factor) ELSE {"none"},
                e2 \in IF scaling THEN TextResizeExcs(param0, scale_factor) ELSE {"none"} }

----------------------------------------------------------------------------
(* Shadow *)

(* the divisor of the shadow radius: radius = int(max_pixel / 512) *)
SHADOW_DIVISOR == 512

(* mutant: the radius follows the shortest side *)
ShadowRadiusOfShortSide(image) ==
    TruncDiv(Min(image.width, image.height), SHADOW_DIVISOR)

(* radius = int(max(image.width, image.height) / 512) *)
ShadowRadius(image) ==
    TruncDiv(Max(image.width, image.height), SHADOW_DIVISOR)

(* ImageOps.expand(image, border=(l, t, r, b)) *)
ImageOps_expand4(image, l, t, r, b) ==
    Img(l + image.width + r, t + image.height + b)

(* ShadowProcessor.process: the shadow canvas is the image expanded by
   2 * radius on every side; the image is pasted on it at (radius, radius) *)
ShadowProcess(c, cfg) ==
    LET image == c.watermark_img
        radius == ShadowRadius(image)
        shadow == ImageOps_expand4(image, radius * 2, radius * 2, radius * 2, radius * 2)
    IN Store(c, cfg, shadow,
             [stage |-> "shadow", before |-> image, radius |-> radius,
              paste_at |-> <<radius, radius>>])

ChainStages == {"base", "empty", "margin", "pure_white_margin"}

(* component.process(container): dynamic dispatch on the component's class;
   the set of the outcomes the call can have *)
StageProcess(stage, c, cfg) ==
    CASE stage.kind = "base" -> {BaseProcess(c, cfg)}
      [] stage.kind = "empty" -> {EmptyProcess(c, cfg)}
      [] stage.kind = "margin" -> {MarginProcess(c, cfg)}
      [] stage.kind = "pure_white_margin" -> {PureWhiteMarginProcess(c, cfg)}
      [] stage.kind = "padding_to_original_ratio" -> {PaddingToOriginalRatioProcess(c, cfg)}
      [] stage.kind \in WatermarkKinds -> WatermarkProcess(stage, c, cfg)
      [] stage.kind = "background_blur_with_params" ->
            BackgroundBlurWithParamsProcess(c, cfg)
      [] stage.kind = "shadow" -> {ShadowProcess(c, cfg)}

(* every leaf class of the module *)
LeafKinds ==
    {"base", "empty", "shadow", "square", "watermark", "watermark_right_logo",
     "watermark_left_logo", "dark_watermark_right_logo", "dark_watermark_left_logo",
     "custom_watermark", "margin", "simple", "padding_to_original_ratio",
     "background_blur", "background_blur_with_white_border", "pure_white_margin",
     "background_blur_with_params"}

NoLocal == [stage |-> "none"]

----------------------------------------------------------------------------
(* The chain *)

DefaultConfig(m) ==
    [bg_color |-> "#ffffff", white_margin_width |-> m, font_padding_level |-> 0,
     logo_left |-> TRUE, logo_enabled |-> TRUE]

ChainContainers ==
    { NewContainer(id, p, NoExif) : id \in ContainerIds, p \in PhotoSizes }

InitChain ==
    /\ components = <<>>
    /\ container \in ChainContainers
    /\ container.id = 1
    /\ config \in { DefaultConfig(m) : m \in MarginWidths }
    /\ op = "none"
    /\ pc = "idle"
    /\ idx = 0
    /\ log = <<>>
    /\ raised = "none"
    /\ local = NoLocal

Callable == pc # "running"

(* ProcessorChain.add *)
ChainAdd(component) ==
    /\ Callable
    /\ components' = Append(components, component)
    /\ op' = "chain.add"
    /\ pc' = "returned"
    /\ raised' = "none"
    /\ idx' = 0
    /\ log' = <<>>
    /\ UNCHANGED <<container, config, local>>

(* mutant: a leaf accepts the component silently *)
LeafAddReturns(kind, component) ==
    /\ Callable
    /\ op' = "leaf.add"
    /\ pc' = "returned"
    /\ raised' = "none"
    /\ idx' = 0
    /\ log' = <<>>
    /\ UNCHANGED <<components, container, config, local>>

(* ProcessorComponent.add, inherited by every leaf *)
LeafAdd(kind, component) ==
    /\ Callable
    /\ op' = "leaf.add"
    /\ pc' = "raised"
    /\ raised' = "NotImplementedError"
    /\ idx' = 0
    /\ log' = <<>>
    /\ UNCHANGED <<components, container, config, local>>

(* ProcessorComponent.process called on the abstract base *)
BaseProcessCall ==
    /\ Callable
    /\ LET r == BaseProcess(container, config) IN
        /\ op' = "base.process"
        /\ pc' = IF r.exc = "none" THEN "returned" ELSE "raised"
        /\ raised' = r.exc
        /\ container' = r.container
        /\ config' = r.config
        /\ local' = r.local
    /\ idx' = 0
    /\ log' = <<>>
    /\ UNCHANGED components

(* the caller enters ProcessorChain.process with a container *)
ChainProcessCall(c) ==
    /\ Callable
    /\ container' = c
    /\ op' = "chain.process"
    /\ pc' = "running"
    /\ idx' = 1
    /\ log' = <<>>
    /\ raised' = "none"
    /\ UNCHANGED <<components, config, local>>

(* mutant: the loop skips the sibling that follows the child *)
LoopSkipsSibling(r) ==
    IF r.exc = "none"
    THEN /\ idx' = idx + 2
         /\ pc' = "running"
         /\ raised' = "none"
    ELSE /\ idx' = idx
         /\ pc' = "raised"
         /\ raised' = r.exc

(* mutant: the loop swallows a child's exception and goes on *)
LoopSwallowsFault(r) ==
    /\ idx' = idx + 1
    /\ pc' = "running"
    /\ raised' = "none"

(* what one iteration of the for loop does after the child has run *)
LoopAfterChild(r) ==
    IF r.exc = "none"
    THEN /\ idx' = idx + 1
         /\ pc' = "running"
         /\ raised' = "none"
    ELSE /\ idx' = idx
         /\ pc' = "raised"
         /\ raised' = r.exc

(* one iteration of the for loop: component.process(container) *)
ChainProcessStep ==
    /\ pc = "running"
    /\ idx <= Len(components)
    /\ \E r \in StageProcess(components[idx], container, config) :
        /\ log' = Append(log, [pos |-> idx, component |-> components[idx],
                               container |-> container.id, exc |-> r.exc])
        /\ container' = r.container
        /\ config' = r.config
        /\ local' = r.local
        /\ LoopAfterChild(r)
    /\ UNCHANGED <<components, op>>

(* the for loop is exhausted: ProcessorChain.process returns *)
ChainProcessReturn ==
    /\ pc = "running"
    /\ idx > Len(components)
    /\ pc' = "returned"
    /\ UNCHANGED <<components, container, config, op, idx, log, raised, local>>

NextChain ==
    \/ \E k \in ChainStages : Len(components) < MaxChain /\ ChainAdd(Stage(k, config))
    \/ \E k \in LeafKinds : LeafAdd(k, Stage("empty", config))
    \/ BaseProcessCall
    \/ \E c \in ChainContainers : ChainProcessCall(c)
    \/ ChainProcessStep
    \/ ChainProcessReturn

Spec == InitChain /\ [][NextChain]_vars

----------------------------------------------------------------------------
(* Chains that end with PaddingToOriginalRatio *)

PaddingStages == {"margin", "pure_white_margin", "padding_to_original_ratio"}

NextPadding ==
    \/ \E k \in PaddingStages : Len(components) < MaxStages /\ ChainAdd(Stage(k, config))
    \/ \E c \in ChainContainers : ChainProcessCall(c)
    \/ ChainProcessStep
    \/ ChainProcessReturn

SpecPadding == InitChain /\ [][NextPadding]_vars

----------------------------------------------------------------------------
(* Chains of Watermark stages and Margin *)

WatermarkStages == WatermarkKinds \cup {"margin"}

QuadrantHeights == {0, 120}

WatermarkPhotos == { Img(4000, 3000), Img(3000, 4000) }

WatermarkContainers ==
    { NewContainer(1, p,
          [lt |-> a, lb |-> a, rt |-> x, rb |-> x, logo |-> g,
           model_image |-> Img(0, 0), param_image |-> Img(0, 0)]) :
        p \in WatermarkPhotos, a \in QuadrantHeights, x \in QuadrantHeights,
        g \in BOOLEAN }

WatermarkConfigs ==
    { [bg_color |-> b, white_margin_width |-> 5, font_padding_level |-> l,
       logo_left |-> le, logo_enabled |-> le] :
        b \in Colors, l \in {0, 1}, le \in BOOLEAN }

InitWatermark ==
    /\ components = <<>>
    /\ container = NewContainer(1, Img(4000, 3000), NoExif)
    /\ config \in WatermarkConfigs
    /\ op = "none"
    /\ pc = "idle"
    /\ idx = 0
    /\ log = <<>>
    /\ raised = "none"
    /\ local = NoLocal

NextWatermark ==
    \/ \E k \in WatermarkStages : Len(components) < MaxStages /\ ChainAdd(Stage(k, config))
    \/ \E c \in WatermarkContainers : ChainProcessCall(c)
    \/ ChainProcessStep
    \/ ChainProcessReturn

SpecWatermark == InitWatermark /\ [][NextWatermark]_vars

----------------------------------------------------------------------------
(* Chains of BackgroundBlurWithParams *)

BlurSides == {1} \cup { 100 * k : k \in 1..MaxBlurSide }

(* sizes of the rasterized texts: "   " has a width and no height *)
TextBitmaps ==
    { Img(w, h) : w \in {0} \cup { 60 * k : k \in 1..MaxText },
                  h \in {0} \cup { 4 * k : k \in 1..MaxText } }

BlurContainers ==
    { NewContainer(1, Img(w, h),
          [lt |-> 0, lb |-> 0, rt |-> 0, rb |-> 0, logo |-> FALSE,
           model_image |-> m, param_image |-> q]) :
        w \in BlurSides, h \in BlurSides, m \in TextBitmaps, q \in TextBitmaps }

InitBlur ==
    /\ components = <<>>
    /\ container = NewContainer(1, Img(100, 100), NoExif)
    /\ config = DefaultConfig(5)
    /\ op = "none"
    /\ pc = "idle"
    /\ idx = 0
    /\ log = <<>>
    /\ raised = "none"
    /\ local = NoLocal

(* the caller builds the chain, then invokes it once *)
Building == op \in {"none", "chain.add"}

NextBlur ==
    \/ /\ Building
       /\ Len(components) < MaxStages
       /\ ChainAdd(Stage("background_blur_with_params", config))
    \/ \E c \in BlurContainers : Building /\ ChainProcessCall(c)
    \/ ChainProcessStep
    \/ ChainProcessReturn

SpecBlur == InitBlur /\ [][NextBlur]_vars

----------------------------------------------------------------------------
(* Chains of Shadow *)

ShadowStages == {"shadow", "empty"}

ShadowSides == {1} \cup { 256 * k : k \in 1..MaxShadowSide }

ShadowContainers ==
    { NewContainer(1, p, NoExif) :
        p \in { Img(w, h) : w \in ShadowSides, h \in ShadowSides }
                \cup { Img(3000, 4000), Img(4000, 3000) } }

NextShadow ==
    \/ \E k \in ShadowStages :
          /\ Building
          /\ Len(components) < MaxStages
          /\ ChainAdd(Stage(k, config))
    \/ \E c \in ShadowContainers : Building /\ ChainProcessCall(c)
    \/ ChainProcessStep
    \/ ChainProcessReturn

SpecShadow == InitBlur /\ [][NextShadow]_vars

----------------------------------------------------------------------------
(* Properties of the chain *)

ChainCall == op = "chain.process"

(* the calls an uninterrupted loop has made after n children *)
InOrder(n) ==
    /\ Len(log) = n
    /\ n <= Len(components)
    /\ \A i \in 1..n :
          /\ log[i].pos = i
          /\ log[i].component = components[i]
          /\ log[i].container = container.id

(* C1: a call of ProcessorChain.process that returns has invoked process on
   every added component exactly once, in the order of the additions, each
   time with the container of the call; while it runs, the calls made so far
   are the first idx - 1 components in that order. *)
C1_EachChildOnceInOrder ==
    ChainCall =>
        /\ (pc = "returned" => InOrder(Len(components)))
        /\ (pc = "running" => InOrder(idx - 1))

C1_Witness ==
    /\ ChainCall
    /\ pc = "returned"
    /\ Len(components) = 3
    /\ components[1] = components[3]
    /\ components[1] # components[2]
    /\ Len(log) = 3

(* C2: when a child faults, it is the last child invoked (none after it, no
   second call of it), the children before it ran once each in order, and the
   caller of ProcessorChain.process receives that child's exception. *)
C2_FailFast ==
    ChainCall =>
        /\ \A i \in 1..Len(log) :
              log[i].exc # "none" =>
                  /\ i = Len(log)
                  /\ pc = "raised"
                  /\ raised = log[i].exc
        /\ (pc = "raised" =>
              /\ InOrder(idx)
              /\ idx >= 1
              /\ log[idx].exc # "none"
              /\ \A i \in 1..(idx - 1) : log[i].exc = "none")

C2_Witness ==
    /\ ChainCall
    /\ pc = "raised"
    /\ Len(components) = 3
    /\ Len(log) = 2
    /\ raised = "NotImplementedError"

(* C3: add on a leaf and process on the abstract base end in
   NotImplementedError and leave the chain, the container and the Config as
   they were; add on a chain returns normally and appends the component at
   the end of the sequence. *)
C3_AddContract ==
    [][Callable =>
         /\ (op' \in {"leaf.add", "base.process"} =>
                /\ pc' = "raised"
                /\ raised' = "NotImplementedError"
                /\ UNCHANGED <<components, container, config>>)
         /\ (op' = "chain.add" =>
                /\ pc' = "returned"
                /\ raised' = "none"
                /\ Len(components') = Len(components) + 1
                /\ SubSeq(components', 1, Len(components)) = components
                /\ UNCHANGED <<container, config>>)]_vars

C3_Witness ==
    /\ op = "leaf.add"
    /\ pc = "raised"
    /\ raised = "NotImplementedError"
    /\ Len(components) = 2

(* C9: with p the margin-width percent and (w, h) the working size, the
   thickness is t = floor(p * min(w, h) / 100); PureWhiteMargin stores an
   image of size (w + 2t, h + 2t) and Margin one of size (w + 2t, h + t). *)
C9_MarginSizes ==
    [][(pc = "running" /\ idx <= Len(components)) =>
         LET w == container.watermark_img.width
             h == container.watermark_img.height
             t == (config.white_margin_width * (IF w <= h THEN w ELSE h)) \div 100
         IN /\ (components[idx].kind = "pure_white_margin" =>
                    container'.watermark_img = [width |-> w + 2 * t, height |-> h + 2 * t])
            /\ (components[idx].kind = "margin" =>
                    container'.watermark_img = [width |-> w + 2 * t, height |-> h + t])]_vars

C9_Witness ==
    /\ ChainCall
    /\ pc = "returned"
    /\ Len(components) = 1
    /\ components[1].kind = "pure_white_margin"
    /\ config.white_margin_width = 5
    /\ container.img = Img(3000, 4000)
    /\ container.watermark_img = Img(3300, 4300)

----------------------------------------------------------------------------
(* Properties of PaddingToOriginalRatio *)

(* the child that ran last in the current call of ProcessorChain.process *)
LastChild == log[Len(log)]

JustRan(kind) ==
    /\ ChainCall
    /\ Len(log) >= 1
    /\ LastChild.component.kind = kind
    /\ local.stage = kind

(* round(n / d, 2), as hundredths *)
Round2(n, d) == (200 * n + d) \div (2 * d)

(* C4: after PaddingToOriginalRatio has run, the working image has the
   original aspect ratio to two decimals and is no smaller than before. *)
C4_RestoresOriginalRatio ==
    (JustRan("padding_to_original_ratio") /\ LastChild.exc = "none") =>
        /\ get_height(container) > 0
        /\ Round2(get_width(container), get_height(container))
             = Round2(container.img.width, container.img.height)
        /\ get_width(container) >= local.before.width
        /\ get_height(container) >= local.before.height

(* C5: a negative padding_size makes PaddingToOriginalRatio fault and leaves
   the working image as it was. *)
C5_NegativePaddingFaults ==
    (JustRan("padding_to_original_ratio") /\ LastChild.exc # "ZeroDivisionError"
        /\ local.padding_size < 0) =>
        /\ LastChild.exc # "none"
        /\ pc = "raised"
        /\ container.watermark_img = local.before

----------------------------------------------------------------------------
(* Properties of the Watermark family *)

WatermarkJustRan ==
    /\ ChainCall
    /\ Len(log) >= 1
    /\ LastChild.component.kind \in WatermarkKinds
    /\ local.stage = LastChild.component.kind
    /\ LastChild.exc \notin {"ZeroDivisionError", "ValueError"}

(* C6: after the column normalization the two columns have the same height,
   and the padding put under the right column is not negative. *)
C6_EqualColumns ==
    WatermarkJustRan =>
        /\ local.left_height = local.right_height
        /\ local.bottom_padding >= 0

(* C7: with the logo enabled and no logo for the make, the Watermark stage
   returns normally, for either logo position, and stores a new image. *)
C7_LogoAbsentHandled ==
    (WatermarkJustRan /\ LastChild.component.logo_enable /\ ~container.exif.logo) =>
        /\ LastChild.exc = "none"
        /\ container.watermark_img # local.before

(* C8: no step of any stage changes the Config. *)
C8_ConfigUnchanged == [][config' = config]_vars

----------------------------------------------------------------------------
(* Properties of BackgroundBlurWithParams *)

BlurJustRan == JustRan("background_blur_with_params")

(* C10 as stated: after the joint scaling neither text bitmap, whatever its
   rasterized size, is wider than 0.75 x the canvas width or taller than the
   caption band, and the stage never divides by zero. *)
C10_TextFitsAnyBitmap ==
    BlurJustRan =>
        /\ LastChild.exc # "ZeroDivisionError"
        /\ (LastChild.exc = "none" =>
              \A t \in {local.model_image, local.param_image} :
                  /\ 100 * t.width <= 75 * local.final_width
                  /\ t.height <= local.params_area_height)

(* C10 amended: the stage never divides by zero; after the joint scaling a
   text bitmap rasterized with a positive height is no wider than
   int(0.75 x photo width) and no taller than the caption band; a bitmap
   rasterized with height 0 is not resized and keeps its width. *)
C10_TextFits ==
    BlurJustRan =>
        /\ LastChild.exc # "ZeroDivisionError"
        /\ (LastChild.exc = "none" =>
              /\ \A t \in {<<local.model_text, local.model_image>>,
                            <<local.param_text, local.param_image>>} :
                    IF t[1].height > 0
                    THEN /\ 100 * t[2].width <= 75 * local.before.width
                         /\ t[2].height <= (8 * local.before.height) \div 100
                    ELSE t[2] = t[1])

(* a long parameter string under a short model name, scaled down by width *)
C10_Witness ==
    /\ BlurJustRan
    /\ LastChild.exc = "none"
    /\ local.before = Img(100, 200)
    /\ local.model_text = Img(60, 4)
    /\ local.param_text = Img(120, 8)
    /\ local.model_image = Img(37, 2)
    /\ local.param_image = Img(75, 5)

----------------------------------------------------------------------------
(* Properties of Shadow *)

ShadowJustRan == JustRan("shadow") /\ LastChild.exc = "none"

Doubled(image) == Img(2 * image.width, 2 * image.height)

LongSide(image) == IF image.width >= image.height THEN image.width ELSE image.height

(* the output of Shadow: size (w + 4 * radius, h + 4 * radius), the photo
   pasted at (radius, radius), radius = int(max(w, h) / 512) *)
ShadowGeometry ==
    /\ local.radius = LongSide(local.before) \div 512
    /\ container.watermark_img =
          [width |-> local.before.width + 4 * local.radius,
           height |-> local.before.height + 4 * local.radius]
    /\ local.paste_at = <<local.radius, local.radius>>

(* C11 as stated: the radius Shadow computes for the doubled size (2w, 2h)
   is exactly twice the radius it computed for (w, h), and the output has
   size (w + 4 * radius, h + 4 * radius) with the photo at (radius, radius). *)
C11_RadiusDoublesExactly ==
    ShadowJustRan =>
        /\ ShadowRadius(Doubled(local.before)) = 2 * local.radius
        /\ ShadowGeometry

(* C11 amended: the radius for the doubled size is twice the radius for
   (w, h), or one more: exactly twice when max(w, h) mod 512 < 256 and twice
   plus one otherwise; the output has size (w + 4 * radius, h + 4 * radius)
   with the photo at (radius, radius). *)
C11_RadiusDoublesWithinOne ==
    ShadowJustRan =>
        /\ ShadowRadius(Doubled(local.before)) =
              2 * local.radius + (IF LongSide(local.before) % 512 < 256 THEN 0 ELSE 1)
        /\ ShadowGeometry

(* a 4000 x 3000 photo: radius 7, and 15 for 8000 x 6000 *)
C11_Witness ==
    /\ ShadowJustRan
    /\ local.before = Img(4000, 3000)
    /\ local.radius = 7
    /\ container.watermark_img = Img(4028, 3028)
    /\ ShadowRadius(Doubled(local.before)) = 15

NonEmpty(image) == image.width > 0 /\ image.height > 0

(* C12: for every pair of non-empty text bitmaps the parameter text is
   pasted below the model name, its top edge at the model name's bottom edge
   plus the fixed gap (param_y = model_y + model height + gap), so the two
   pasted rectangles do not overlap vertically and both lie within the
   bottom params_area_height rows of the canvas. *)
C12_CaptionLinesStacked ==
    ( /\ BlurJustRan
      /\ LastChild.exc = "none"
      /\ NonEmpty(local.model_text) /\ NonEmpty(local.param_text)
      /\ NonEmpty(local.model_image) /\ NonEmpty(local.param_image) )
    => /\ local.param_y = local.model_y + local.model_image.height + TEXT_GAP
       /\ local.model_y + local.model_image.height <= local.param_y
       /\ local.model_y >= local.final_height - local.params_area_height
       /\ local.param_y + local.param_image.height <= local.final_height

====
